---- MODULE Spec2Model ----
(***************************************************************************)
(* Model of the OpenTelemetry wrapper layer of llama.cpp                   *)
(* (common/otel/otel.h, common/otel/otel.cpp) and of the instrumented host *)
(* functions llama_model_load and llama_decode.                            *)
(*                                                                         *)
(* The OpenTelemetry SDK itself is outside the repository.  It is modelled *)
(* only at the calls the wrapper makes: a process-wide provider slot       *)
(* (Provider::SetTracerProvider / GetTracerProvider, likewise for meters), *)
(* providers that hand out handles, spans that store attributes, events,   *)
(* a status and the number of End calls, and instruments that sum what is  *)
(* recorded on them.  The slot is empty until a provider is set.           *)
(***************************************************************************)
EXTENDS Integers, Sequences, FiniteSets, TLC

\* ------------------------------------------------------------------ bounds
MaxInit == 2
MaxObj == 2
MaxMeth == 1
MaxAdds == 3
MaxRec == 1
MaxActive == 4
MaxHost == 1
MaxScopes == 1
NThreads == 2
MaxCalls == 2
MaxSets == 2
MaxSpanInit == 1

\* --------------------------------------------------------------- constants
\* a null shared_ptr<TracerProvider> / shared_ptr<MeterProvider>
NoProvider == 0

\* the default tracer / meter name (otel.h)
DefaultName == "llama-cpp"
Names == {DefaultName, "aux"}

\* the six instruments, in the order Initialize creates them
InstrumentOrder ==
    <<"tokens", "token_time", "model_load_time",
      "memory_usage", "batch_size", "active_requests">>
Signals == {InstrumentOrder[n] : n \in 1..Len(InstrumentOrder)}

\* the steps of Initialize that can throw, in program order
InitSteps ==
    <<"resource", "trace_exporter", "trace_processor", "tracer_provider",
      "metric_exporter", "metric_reader", "view_registry", "meter_provider",
      "add_metric_reader",
      "tokens", "token_time", "model_load_time",
      "memory_usage", "batch_size", "active_requests">>
NoFailure == Len(InitSteps) + 1
StepOf(name) == CHOOSE n \in 1..Len(InitSteps) : InitSteps[n] = name
FailureKinds == {"std_exception", "other"}

\* a handle (tracer or meter): the provider it came from, the name it was
\* requested under and which request for that name produced it
NoHandle == [prov |-> NoProvider, name |-> "", gen |-> 0]

\* span attributes
Keys == {"k", "j"}
Vals == {"1", "2"}
HostKeys == {"batch.n_tokens", "model.path", "model.use_mmap",
             "model.vocab_only", "model.split_count", "model.n_params",
             "task.id"}
AttrKeys == Keys \cup HostKeys
NoValue == "<unset>"
NoAttributes == [k \in AttrKeys |-> NoValue]
\* the std::unordered_map arguments: keys unique, any subset of keys
AttributeMaps == UNION {[D -> Vals] : D \in SUBSET Keys}
Messages == {"boom"}
ExitPaths == {"normal", "early_return", "exception"}
ActiveCounts == {3, 5, 8}
TokenCounts == {2, 3}
BatchSizes == {0, 2}
MemorySizes == {3}
Durations == {1}

Threads == 1..NThreads

VARIABLES
    g_tracer_provider,      \* otel.cpp global: 0 or a tracer provider id
    g_meter_provider,       \* otel.cpp global: 0 or a meter provider id
    sdk_tracer_provider,    \* SDK slot written by Provider::SetTracerProvider
    sdk_meter_provider,     \* SDK slot written by Provider::SetMeterProvider
    providers,              \* SDK side: providers created and shut down
    inst,                   \* the six g_*_counter / g_*_histogram pointers
    meter_data,             \* SDK side: what the instruments received
    tracers,                \* static map of GetTracer
    meters,                 \* static map of GetMeter
    handles,                \* SDK side: handles handed out by providers
    last_count,             \* static last_count of SetActiveRequests
    scoped,                 \* the ScopedSpan objects and their SDK spans
    host,                   \* the last run of an instrumented host function
    pc, frame,              \* worker threads: position and locals
    mtx,                    \* the three static mutexes: 0 or the holder
    hist,                   \* history of the calls made (for the properties)
    fuel                    \* calls the environment may still make

vars == <<g_tracer_provider, g_meter_provider, sdk_tracer_provider,
          sdk_meter_provider, providers, inst, meter_data, tracers, meters,
          handles, last_count, scoped, host, pc, frame, mtx, hist, fuel>>


\* ------------------------------------------------------- SDK side (boundary)
\* provider->GetTracer(name) / provider->GetMeter(name): a new handle of that
\* provider; asked is the number of earlier requests for the name
ProviderHandle(provider, name, asked) ==
    [prov |-> provider, name |-> name, gen |-> asked + 1]

\* tracer->StartSpan(name): the wrapper passes the name only, no options
StartSpan(tracer, name) ==
    [started |-> TRUE, name |-> name, attrs |-> NoAttributes, events |-> <<>>,
     status |-> "unset", msg |-> "", ends |-> 0, prov |-> tracer.prov,
     parent |-> 0]

NoSpan ==
    [started |-> FALSE, name |-> "", attrs |-> NoAttributes, events |-> <<>>,
     status |-> "unset", msg |-> "", ends |-> 0, prov |-> NoProvider,
     parent |-> 0]

\* span->SetAttribute(key, value): the key's value is replaced
SetAttribute(sp, key, value) == [sp EXCEPT !.attrs[key] = value]

\* span->AddEvent(name): an event without attributes
SpanAddEvent(sp, name) ==
    [sp EXCEPT !.events = Append(@, [name |-> name, attrs |-> << >>])]

\* span->SetStatus(StatusCode::kError, message)
SetStatus(sp, message) == [sp EXCEPT !.status = "error", !.msg = message]

\* span->End()
End(sp) == [sp EXCEPT !.ends = @ + 1]

\* an instrument that keeps the last value given instead of adding it
InstrumentCall_KeepsLast(md, s, v) ==
    [md EXCEPT !.total[s] = v, !.calls = @ + 1,
               !.ar_log = IF s = "active_requests" THEN Append(@, v) ELSE @]

\* instrument->Add(v) / instrument->Record(v) on the instrument of signal s
InstrumentCall(md, s, v) ==
    [md EXCEPT !.total[s] = @ + v, !.calls = @ + 1,
               !.ar_log = IF s = "active_requests" THEN Append(@, v) ELSE @]

\* ----------------------------------------------------------- GetTracer
\* lookup in the static map first; on a miss ask the SDK's current provider
\* the branch taken when tracers.find(name) found nothing
GetTracerMiss(cache, provider, hs, name) ==
    IF provider # NoProvider
    THEN LET tracer == ProviderHandle(provider, name, hs.asked_t[name])
         IN  [ret |-> tracer,
              cache |-> [cache EXCEPT ![name] = tracer],
              hs |-> [hs EXCEPT !.asked_t[name] = @ + 1]]
    ELSE [ret |-> NoHandle, cache |-> cache, hs |-> hs]

GetTracer(cache, provider, hs, name) ==
    IF cache[name] # NoHandle
    THEN [ret |-> cache[name], cache |-> cache, hs |-> hs]
    ELSE GetTracerMiss(cache, provider, hs, name)

\* the branch taken when meters.find(name) found nothing
GetMeterMiss(cache, provider, hs, name) ==
    IF provider # NoProvider
    THEN LET meter == ProviderHandle(provider, name, hs.asked_m[name])
         IN  [ret |-> meter,
              cache |-> [cache EXCEPT ![name] = meter],
              hs |-> [hs EXCEPT !.asked_m[name] = @ + 1]]
    ELSE [ret |-> NoHandle, cache |-> cache, hs |-> hs]

GetMeter(cache, provider, hs, name) ==
    IF cache[name] # NoHandle
    THEN [ret |-> cache[name], cache |-> cache, hs |-> hs]
    ELSE GetMeterMiss(cache, provider, hs, name)

\* mutant: the lock_guard is missing
LockGuard_Missing(holder) == TRUE

\* std::lock_guard<std::mutex> lock(mutex): entered only while nobody holds it
LockGuard(holder) == holder = 0

\* ----------------------------------------------------------- instruments
NoInstrument == [created |-> FALSE, prov |-> NoProvider]
Present(instrument) == instrument.created

\* meter->CreateCounter / CreateHistogram / CreateUpDownCounter
CreateInstrument(meter) == [created |-> TRUE, prov |-> meter.prov]


\* ------------------------------------------------- Initialize and Shutdown
\* the globals of otel.cpp and of the SDK that Initialize and Shutdown touch
Globals ==
    [g_tracer_provider |-> g_tracer_provider,
     g_meter_provider |-> g_meter_provider,
     sdk_tracer_provider |-> sdk_tracer_provider,
     sdk_meter_provider |-> sdk_meter_provider,
     providers |-> providers, inst |-> inst, meter_data |-> meter_data,
     meters |-> meters, handles |-> handles]

SetGlobals(G) ==
    /\ g_tracer_provider' = G.g_tracer_provider
    /\ g_meter_provider' = G.g_meter_provider
    /\ sdk_tracer_provider' = G.sdk_tracer_provider
    /\ sdk_meter_provider' = G.sdk_meter_provider
    /\ providers' = G.providers
    /\ inst' = G.inst
    /\ meter_data' = G.meter_data
    /\ meters' = G.meters
    /\ handles' = G.handles

\* the six meter->Create... calls, up to the one that throws (failAt)
RECURSIVE CreateInstruments(_, _, _, _)
CreateInstruments(G, meter, failAt, n) ==
    IF n > Len(InstrumentOrder) \/ failAt <= StepOf(InstrumentOrder[n])
    THEN G
    ELSE LET s == InstrumentOrder[n]
         IN  CreateInstruments(
                 [G EXCEPT !.inst[s] = CreateInstrument(meter),
                           !.meter_data.total[s] = 0,
                           !.meter_data.made[s] = @ + 1],
                 meter, failAt, n + 1)

\* Initialize, with the step failAt throwing (NoFailure: none does)
InitializeOp(G, failAt, kind) ==
    LET tp == G.providers.tp + 1
        mp == G.providers.mp + 1
        G1 == IF failAt > StepOf("tracer_provider")
              THEN [G EXCEPT !.g_tracer_provider = tp,
                             !.sdk_tracer_provider = tp,
                             !.providers.tp = tp]
              ELSE G
        G2 == IF failAt > StepOf("meter_provider")
              THEN [G1 EXCEPT !.g_meter_provider = mp, !.providers.mp = mp]
              ELSE G1
        reached == failAt > StepOf("add_metric_reader")
        G3 == IF reached THEN [G2 EXCEPT !.sdk_meter_provider = mp] ELSE G2
        gm == GetMeter(G3.meters, G3.sdk_meter_provider, G3.handles, DefaultName)
        G4 == IF reached
              THEN [G3 EXCEPT !.meters = gm.cache, !.handles = gm.hs]
              ELSE G3
        G5 == IF reached /\ gm.ret # NoHandle
              THEN CreateInstruments(G4, gm.ret, failAt, 1)
              ELSE G4
        threw == /\ failAt # NoFailure
                 /\ (reached => gm.ret # NoHandle)
    IN  [G |-> G5, called |-> reached, meter |-> gm.ret,
         ret |-> IF ~threw THEN "true"
                 ELSE IF kind = "std_exception" THEN "false"
                 ELSE "propagated"]

\* Shutdown
ShutdownOp(G) ==
    LET G1 == IF G.g_tracer_provider # NoProvider
              THEN [G EXCEPT !.providers.tp_down = @ \cup {G.g_tracer_provider},
                             !.g_tracer_provider = NoProvider]
              ELSE G
        G2 == IF G1.g_meter_provider # NoProvider
              THEN [G1 EXCEPT !.providers.mp_down = @ \cup {G.g_meter_provider},
                              !.g_meter_provider = NoProvider]
              ELSE G1
    IN  [G2 EXCEPT !.inst = [s \in Signals |-> NoInstrument]]

\* --------------------------------------------------------------- ScopedSpan
\* a ScopedSpan object: active_ and span_ of otel.h, the SDK span span_
\* points to (sp), and what the caller did with the object; for a copy, `of`
\* is the object whose span_ it shares (0: the span is its own)
NoObject ==
    [st |-> "unborn", active_ |-> FALSE, span_ |-> FALSE, sp |-> NoSpan,
     kind |-> "none", parent_active |-> FALSE, born |-> "fresh",
     init |-> << >>, adds |-> << >>, notes |-> 0, exit |-> "none",
     of |-> 0]

\* for (attr : attributes) span->SetAttribute(attr.first, attr.second)
RECURSIVE ApplyAttributes(_, _)
ApplyAttributes(sp, attributes) ==
    IF DOMAIN attributes = {}
    THEN sp
    ELSE LET key == CHOOSE x \in DOMAIN attributes : TRUE
             rest == [x \in DOMAIN attributes \ {key} |-> attributes[x]]
         IN  ApplyAttributes(SetAttribute(sp, key, attributes[key]), rest)

\* mutant: the root constructor starts the span and drops the attributes
ScopedSpanRoot_NoAttributes(e, cache, provider, hs, name, attributes) ==
    LET g == GetTracer(cache, provider, hs, DefaultName)
    IN  [obj |-> IF g.ret # NoHandle
                 THEN [e EXCEPT !.sp = StartSpan(g.ret, name),
                                !.span_ = TRUE, !.active_ = TRUE]
                 ELSE e,
         cache |-> g.cache, hs |-> g.hs, called |-> TRUE, tracer |-> g.ret]

\* ScopedSpan::ScopedSpan(name, attributes)
ScopedSpanRoot(e, cache, provider, hs, name, attributes) ==
    LET g == GetTracer(cache, provider, hs, DefaultName)
    IN  [obj |-> IF g.ret # NoHandle
                 THEN [e EXCEPT
                         !.sp = ApplyAttributes(StartSpan(g.ret, name), attributes),
                         !.span_ = TRUE,
                         !.active_ = TRUE]
                 ELSE e,
         cache |-> g.cache, hs |-> g.hs, called |-> TRUE, tracer |-> g.ret]

\* mutant: the child constructor does not look at parent.active_
ScopedSpanChild_IgnoresParent(e, parent, cache, provider, hs, name, attributes) ==
    ScopedSpanRoot(e, cache, provider, hs, name, attributes)

\* ScopedSpan::ScopedSpan(parent, name, attributes)
ScopedSpanChild(e, parent, cache, provider, hs, name, attributes) ==
    IF parent.active_
    THEN LET g == GetTracer(cache, provider, hs, DefaultName)
         IN  [obj |-> IF g.ret # NoHandle
                      THEN [e EXCEPT
                              !.sp = ApplyAttributes(StartSpan(g.ret, name), attributes),
                              !.span_ = TRUE,
                              !.active_ = TRUE]
                      ELSE e,
              cache |-> g.cache, hs |-> g.hs, called |-> TRUE,
              tracer |-> g.ret]
    ELSE [obj |-> e, cache |-> cache, hs |-> hs, called |-> FALSE,
          tracer |-> NoHandle]

\* mutant: the destructor clears the flag and forgets End()
Destructor_NoEnd(e) == [e EXCEPT !.active_ = FALSE]

\* ScopedSpan::~ScopedSpan
Destructor(e) ==
    IF e.active_ /\ e.span_
    THEN [e EXCEPT !.sp = End(@), !.active_ = FALSE]
    ELSE e

\* mutant: AddAttribute keeps the value a key already has
AddAttribute_KeepsFirst(e, key, value) ==
    IF e.active_ /\ e.span_ /\ e.sp.attrs[key] = NoValue
    THEN [e EXCEPT !.sp = SetAttribute(@, key, value)]
    ELSE e

\* ScopedSpan::AddAttribute
AddAttribute(e, key, value) ==
    IF e.active_ /\ e.span_
    THEN [e EXCEPT !.sp = SetAttribute(@, key, value)]
    ELSE e

\* mutant: AddEvent also ends the span and clears the flag
AddEvent_Ends(e, name, attributes) ==
    IF e.active_ /\ e.span_
    THEN [e EXCEPT !.sp = End(SpanAddEvent(@, name)), !.active_ = FALSE]
    ELSE e

\* ScopedSpan::AddEvent: the attributes argument is not passed on
AddEvent(e, name, attributes) ==
    IF e.active_ /\ e.span_
    THEN [e EXCEPT !.sp = SpanAddEvent(@, name)]
    ELSE e

\* mutant: RecordException also ends the span
RecordException_Ends(e, what) ==
    IF e.active_ /\ e.span_
    THEN [e EXCEPT !.sp = End(SetStatus(@, what)), !.active_ = FALSE]
    ELSE e

\* ScopedSpan::RecordException
RecordException(e, what) ==
    IF e.active_ /\ e.span_
    THEN [e EXCEPT !.sp = SetStatus(@, what)]
    ELSE e

\* mutant: SetError does not test active_ && span_
SetError_NoCheck(e, message) == [e EXCEPT !.sp = SetStatus(@, message)]

\* ScopedSpan::SetError
SetError(e, message) ==
    IF e.active_ /\ e.span_
    THEN [e EXCEPT !.sp = SetStatus(@, message)]
    ELSE e


\* ---------------------------------------------------------------- recorders
\* each takes the instrument pointers I and the instruments' data md
\* mutant: IncrementTokens does not test the pointer
IncrementTokens_NoCheck(I, md, count) == InstrumentCall(md, "tokens", count)

IncrementTokens(I, md, count) ==
    IF Present(I["tokens"]) THEN InstrumentCall(md, "tokens", count) ELSE md

RecordTokenTime(I, md, milliseconds) ==
    IF Present(I["token_time"])
    THEN InstrumentCall(md, "token_time", milliseconds)
    ELSE md

RecordModelLoadTime(I, md, milliseconds) ==
    IF Present(I["model_load_time"])
    THEN InstrumentCall(md, "model_load_time", milliseconds)
    ELSE md

RecordMemoryUsage(I, md, bytes) ==
    IF Present(I["memory_usage"])
    THEN InstrumentCall(md, "memory_usage", bytes)
    ELSE md

RecordBatchSize(I, md, size) ==
    IF Present(I["batch_size"])
    THEN InstrumentCall(md, "batch_size", size)
    ELSE md

\* mutant: the absolute count is applied
ActiveDiff_Absolute(count, last) == count

\* int64_t diff = count - last_count
ActiveDiff(count, last) == count - last

\* SetActiveRequests, the body under its lock_guard
SetActiveRequests(I, md, last, count) ==
    IF Present(I["active_requests"])
    THEN LET diff == ActiveDiff(count, last)
         IN  IF diff # 0
             THEN [md |-> InstrumentCall(md, "active_requests", diff),
                   last_count |-> count]
             ELSE [md |-> md, last_count |-> last]
    ELSE [md |-> md, last_count |-> last]

\* ----------------------------------------------------------- host functions
\* std::to_string on the values the host passes
to_string(n) ==
    CASE n = 0 -> "0" [] n = 1 -> "1" [] n = 2 -> "2" [] n = 3 -> "3"
      [] OTHER -> "many"

NoHostArgs ==
    [n_tokens |-> 0, has_state |-> FALSE, internal_throws |-> FALSE,
     internal_ret |-> 0, loader |-> "none"]

NoHostRun ==
    [fn |-> "none", args |-> NoHostArgs, ret |-> 0, exit |-> "none",
     span |-> NoObject, born |-> "fresh"]

\* llama_decode as it is without the added lines
PlainDecode(n_tokens, has_state, internal) ==
    IF n_tokens = 0 \/ has_state
    THEN [ret |-> 1, exit |-> "early_return"]
    ELSE IF internal.throws
    THEN [ret |-> 0, exit |-> "exception"]
    ELSE [ret |-> internal.ret, exit |-> "normal"]

\* llama_model_load as it is without the added lines
PlainModelLoad(loader) ==
    CASE loader = "ok" -> [ret |-> 0, exit |-> "normal"]
      [] loader = "std_exception" -> [ret |-> -1, exit |-> "catch_return"]
      [] OTHER -> [ret |-> 0, exit |-> "exception"]


\* mutant: llama_decode gives up when its span did not start
LlamaDecodeOp_NeedsSpan(S, n_tokens, has_state, internal, ms) ==
    LET c  == ScopedSpanRoot(NoObject, S.tracers, S.sdk_tracer_provider,
                             S.handles, "llama_decode", << >>)
        e1 == AddAttribute(c.obj, "batch.n_tokens", to_string(n_tokens))
        S1 == [S EXCEPT !.tracers = c.cache, !.handles = c.hs,
                        !.tracer = c.tracer]
        p  == PlainDecode(n_tokens, has_state, internal)
    IN  IF c.obj.active_
        THEN [S |-> S1, ret |-> p.ret, exit |-> p.exit, span |-> Destructor(e1)]
        ELSE [S |-> S1, ret |-> 1, exit |-> "early_return", span |-> e1]

\* llama_decode: the span, the two early returns, llama_decode_internal (which
\* returns internal.ret or throws), the three recorders, the return.
\* S holds tracers, sdk_tracer_provider, handles, inst, meter_data, and
\* the tracer the span's constructor obtained (for the history).
LlamaDecodeOp(S, n_tokens, has_state, internal, ms) ==
    LET c  == ScopedSpanRoot(NoObject, S.tracers, S.sdk_tracer_provider,
                             S.handles, "llama_decode", << >>)
        e1 == AddAttribute(c.obj, "batch.n_tokens", to_string(n_tokens))
        S1 == [S EXCEPT !.tracers = c.cache, !.handles = c.hs,
                        !.tracer = c.tracer]
    IN  IF n_tokens = 0
        THEN [S |-> S1, ret |-> 1, exit |-> "early_return",
              span |-> Destructor(SetError(e1, "empty batch"))]
        ELSE IF has_state
        THEN [S |-> S1, ret |-> 1, exit |-> "early_return",
              span |-> Destructor(SetError(e1,
                  "no batch setup because the context has state"))]
        ELSE IF internal.throws
        THEN [S |-> S1, ret |-> 0, exit |-> "exception",
              span |-> Destructor(e1)]
        ELSE LET m1 == RecordTokenTime(S.inst, S.meter_data, ms)
                 m2 == RecordBatchSize(S.inst, m1, n_tokens)
                 m3 == IncrementTokens(S.inst, m2, n_tokens)
             IN  [S |-> [S1 EXCEPT !.meter_data = m3], ret |-> internal.ret,
                  exit |-> "normal", span |-> Destructor(e1)]

\* llama_model_load: the span and its four attributes, the loader in the try
\* block, SetError in the catch (const std::exception &) block
LlamaModelLoadOp(S, fname, use_mmap, vocab_only, n_splits, n_params, loader, ms) ==
    LET c  == ScopedSpanRoot(NoObject, S.tracers, S.sdk_tracer_provider,
                             S.handles, "llama_model_load", << >>)
        e1 == AddAttribute(c.obj, "model.path", fname)
        e2 == AddAttribute(e1, "model.use_mmap",
                           IF use_mmap THEN "true" ELSE "false")
        e3 == AddAttribute(e2, "model.vocab_only",
                           IF vocab_only THEN "true" ELSE "false")
        e4 == AddAttribute(e3, "model.split_count", to_string(n_splits))
        S1 == [S EXCEPT !.tracers = c.cache, !.handles = c.hs,
                        !.tracer = c.tracer]
    IN  CASE loader = "ok" ->
               LET m1 == RecordModelLoadTime(S.inst, S.meter_data, ms)
                   e5 == AddAttribute(e4, "model.n_params", to_string(n_params))
               IN  [S |-> [S1 EXCEPT !.meter_data = m1], ret |-> 0,
                    exit |-> "normal", span |-> Destructor(e5)]
          [] loader = "std_exception" ->
               [S |-> S1, ret |-> -1, exit |-> "catch_return",
                span |-> Destructor(SetError(e4, "load failed"))]
          [] OTHER ->
               [S |-> S1, ret |-> 0, exit |-> "exception",
                span |-> Destructor(e4)]


\* ------------------------------------------------------------ initial state
NoFuel ==
    [init |-> 0, obj |-> 0, meth |-> 0, rec |-> 0, active |-> 0, host |-> 0]

\* the last lookup or recorder call: its name, argument and returned handle
Last(op, arg, h) == [op |-> op, arg |-> arg, h |-> h]
NoCall == Last("none", "", NoHandle)

NoHistory ==
    [last |-> NoCall,
     phase |-> "fresh",
     ar_args |-> << >>,
     seen_t |-> [n \in Names |-> {}],
     seen_m |-> [n \in Names |-> {}],
     lock_count |-> 0]

\* every handle a lookup of the name returned
Seen(seen, name, called, h) ==
    IF called /\ h # NoHandle THEN [seen EXCEPT ![name] = @ \cup {h}] ELSE seen

\* the process before any call: null globals, empty static maps
StartGlobals ==
    [g_tracer_provider |-> NoProvider,
     g_meter_provider |-> NoProvider,
     sdk_tracer_provider |-> NoProvider,
     sdk_meter_provider |-> NoProvider,
     providers |-> [tp |-> 0, mp |-> 0, tp_down |-> {}, mp_down |-> {}],
     inst |-> [s \in Signals |-> NoInstrument],
     meter_data |-> [total |-> [s \in Signals |-> 0],
                     made |-> [s \in Signals |-> 0],
                     calls |-> 0, ar_log |-> << >>],
     meters |-> [n \in Names |-> NoHandle],
     handles |-> [asked_t |-> [n \in Names |-> 0],
                  asked_m |-> [n \in Names |-> 0]]]

InitWith(G, h, f) ==
    /\ g_tracer_provider = G.g_tracer_provider
    /\ g_meter_provider = G.g_meter_provider
    /\ sdk_tracer_provider = G.sdk_tracer_provider
    /\ sdk_meter_provider = G.sdk_meter_provider
    /\ providers = G.providers
    /\ inst = G.inst
    /\ meter_data = G.meter_data
    /\ meters = G.meters
    /\ handles = G.handles
    /\ tracers = [n \in Names |-> NoHandle]
    /\ last_count = 0
    /\ scoped = [i \in 1..MaxObj |-> NoObject]
    /\ host = NoHostRun
    /\ pc = [t \in Threads |-> "idle"]
    /\ frame = [t \in Threads |-> [op |-> "none", name |-> "", count |-> 0,
                                   diff |-> 0,
                                   present |-> FALSE, ret |-> NoHandle,
                                   calls |-> 0]]
    /\ mtx = [tracer |-> 0, meter |-> 0, active |-> 0, queue |-> 0]
    /\ hist = h
    /\ fuel = f

\* the state a first Initialize leaves when no step fails
LiveStart == InitializeOp(StartGlobals, NoFailure, "std_exception")
LiveGlobals == LiveStart.G
LiveHistory ==
    [NoHistory EXCEPT !.phase = "live",
                      !.seen_m = Seen(@, DefaultName, TRUE, LiveStart.meter)]

Init ==
    InitWith(StartGlobals, NoHistory,
             [NoFuel EXCEPT !.init = MaxSpanInit, !.obj = MaxObj,
                            !.meth = MaxMeth])

\* ------------------------------------------------- actions: the lifecycle
Initialize(failAt, kind) ==
    /\ fuel.init > 0
    /\ LET r == InitializeOp(Globals, failAt, kind)
       IN  /\ SetGlobals(r.G)
           /\ hist' = [hist EXCEPT
                         !.last = NoCall,
                         !.phase = CASE r.ret = "true" -> "live"
                                     [] r.ret = "false" -> "failed"
                                     [] OTHER -> "propagated",
                         !.seen_m = Seen(@, DefaultName, r.called, r.meter)]
    /\ fuel' = [fuel EXCEPT !.init = @ - 1]
    /\ UNCHANGED <<tracers, last_count, scoped, host, pc, frame, mtx>>

Shutdown ==
    /\ SetGlobals(ShutdownOp(Globals))
    /\ hist' = [hist EXCEPT !.last = NoCall, !.phase = "down"]
    /\ UNCHANGED <<tracers, last_count, scoped, host, pc, frame, mtx, fuel>>

\* a direct GetTracer(name) call
CallGetTracer(name) ==
    /\ LET g == GetTracer(tracers, sdk_tracer_provider, handles, name)
       IN  /\ tracers' = g.cache
           /\ handles' = g.hs
           /\ hist' = [hist EXCEPT
                         !.last = Last("GetTracer", name, g.ret),
                         !.seen_t = Seen(@, name, TRUE, g.ret)]
    /\ UNCHANGED <<g_tracer_provider, g_meter_provider, sdk_tracer_provider,
                   sdk_meter_provider, providers, inst, meter_data, meters,
                   last_count, scoped, host, pc, frame, mtx, fuel>>

\* a direct GetMeter(name) call
CallGetMeter(name) ==
    /\ LET g == GetMeter(meters, sdk_meter_provider, handles, name)
       IN  /\ meters' = g.cache
           /\ handles' = g.hs
           /\ hist' = [hist EXCEPT
                         !.last = Last("GetMeter", name, g.ret),
                         !.seen_m = Seen(@, name, TRUE, g.ret)]
    /\ UNCHANGED <<g_tracer_provider, g_meter_provider, sdk_tracer_provider,
                   sdk_meter_provider, providers, inst, meter_data, tracers,
                   last_count, scoped, host, pc, frame, mtx, fuel>>

\* ------------------------------------------- actions: ScopedSpan objects
lifecycleVars ==
    <<g_tracer_provider, g_meter_provider, sdk_tracer_provider,
      sdk_meter_provider, providers, inst, meter_data, meters, last_count>>
threadVars == <<pc, frame, mtx>>

NextObject(i) ==
    /\ scoped[i].st = "unborn"
    /\ \A j \in 1..(i - 1) : scoped[j].st # "unborn"

\* ScopedSpan span(name, attributes)
Construct(i, name, attributes) ==
    /\ fuel.obj > 0
    /\ NextObject(i)
    /\ Cardinality(DOMAIN attributes) <= fuel.meth
    /\ LET r == ScopedSpanRoot(NoObject, tracers, sdk_tracer_provider, handles,
                               name, attributes)
       IN  /\ scoped' = [scoped EXCEPT ![i] =
                           [r.obj EXCEPT !.st = "live", !.kind = "root",
                                         !.born = hist.phase,
                                         !.init = attributes]]
           /\ tracers' = r.cache
           /\ handles' = r.hs
           /\ hist' = [hist EXCEPT
                         !.last = NoCall,
                         !.seen_t = Seen(@, DefaultName, r.called, r.tracer)]
    /\ fuel' = [fuel EXCEPT !.obj = @ - 1,
                            !.meth = @ - Cardinality(DOMAIN attributes)]
    /\ UNCHANGED <<lifecycleVars, host, threadVars>>

\* ScopedSpan span(parent, name, attributes), the parent still in scope
ConstructChild(p, i, name, attributes) ==
    /\ fuel.obj > 0
    /\ NextObject(i)
    /\ scoped[p].st = "live"
    /\ Cardinality(DOMAIN attributes) <= fuel.meth
    /\ LET r == ScopedSpanChild(NoObject, scoped[p], tracers,
                                sdk_tracer_provider, handles, name, attributes)
       IN  /\ scoped' = [scoped EXCEPT ![i] =
                           [r.obj EXCEPT !.st = "live", !.kind = "child",
                                         !.parent_active = scoped[p].active_,
                                         !.born = hist.phase,
                                         !.init = attributes]]
           /\ tracers' = r.cache
           /\ handles' = r.hs
           /\ hist' = [hist EXCEPT
                         !.last = NoCall,
                         !.seen_t = Seen(@, DefaultName, r.called, r.tracer)]
    /\ fuel' = [fuel EXCEPT !.obj = @ - 1,
                            !.meth = @ - Cardinality(DOMAIN attributes)]
    /\ UNCHANGED <<lifecycleVars, host, threadVars>>

spanFrame ==
    <<lifecycleVars, tracers, handles, host, threadVars>>

CallAddAttribute(i, key, value) ==
    /\ fuel.meth > 0
    /\ scoped[i].st = "live"
    /\ scoped' = [scoped EXCEPT ![i] =
                    [AddAttribute(scoped[i], key, value) EXCEPT
                        !.adds = Append(@, <<key, value>>)]]
    /\ fuel' = [fuel EXCEPT !.meth = @ - 1]
    /\ hist' = [hist EXCEPT !.last = Last("AddAttribute", key, NoHandle)]
    /\ UNCHANGED spanFrame

CallAddEvent(i, name, attributes) ==
    /\ fuel.meth > 0
    /\ scoped[i].st = "live"
    /\ scoped' = [scoped EXCEPT ![i] =
                    [AddEvent(scoped[i], name, attributes) EXCEPT
                        !.notes = @ + 1]]
    /\ fuel' = [fuel EXCEPT !.meth = @ - 1]
    /\ hist' = [hist EXCEPT !.last = Last("AddEvent", name, NoHandle)]
    /\ UNCHANGED spanFrame

CallRecordException(i, what) ==
    /\ fuel.meth > 0
    /\ scoped[i].st = "live"
    /\ scoped' = [scoped EXCEPT ![i] =
                    [RecordException(scoped[i], what) EXCEPT !.notes = @ + 1]]
    /\ fuel' = [fuel EXCEPT !.meth = @ - 1]
    /\ hist' = [hist EXCEPT !.last = Last("RecordException", what, NoHandle)]
    /\ UNCHANGED spanFrame

CallSetError(i, message) ==
    /\ fuel.meth > 0
    /\ scoped[i].st = "live"
    /\ scoped' = [scoped EXCEPT ![i] =
                    [SetError(scoped[i], message) EXCEPT !.notes = @ + 1]]
    /\ fuel' = [fuel EXCEPT !.meth = @ - 1]
    /\ hist' = [hist EXCEPT !.last = Last("SetError", message, NoHandle)]
    /\ UNCHANGED spanFrame

\* the enclosing scope is left by path: the destructor runs
Destroy(i, path) ==
    /\ scoped[i].st = "live"
    \* automatic objects: scopes nest, the innermost is left first
    /\ \A j \in 1..MaxObj : j > i => scoped[j].st # "live"
    /\ scoped' = [scoped EXCEPT ![i] =
                    [Destructor(scoped[i]) EXCEPT !.st = "dead", !.exit = path]]
    /\ hist' = [hist EXCEPT !.last = NoCall]
    /\ UNCHANGED <<spanFrame, fuel>>

\* ------------------------------------------------ actions: host functions
HostState ==
    [tracers |-> tracers, sdk_tracer_provider |-> sdk_tracer_provider,
     handles |-> handles, inst |-> inst, meter_data |-> meter_data,
     tracer |-> NoHandle]

HostDone(fn, args, r) ==
    /\ tracers' = r.S.tracers
    /\ handles' = r.S.handles
    /\ meter_data' = r.S.meter_data
    /\ host' = [fn |-> fn, args |-> args, ret |-> r.ret, exit |-> r.exit,
                span |-> r.span, born |-> hist.phase]
    /\ fuel' = [fuel EXCEPT !.host = @ - 1]
    /\ hist' = [hist EXCEPT !.last = NoCall,
                            !.seen_t = Seen(@, DefaultName, TRUE, r.S.tracer)]
    /\ UNCHANGED <<g_tracer_provider, g_meter_provider, sdk_tracer_provider,
                   sdk_meter_provider, providers, inst, meters, last_count,
                   scoped, threadVars>>

DecodeOutcomes ==
    {[throws |-> FALSE, ret |-> 0], [throws |-> FALSE, ret |-> 1],
     [throws |-> TRUE, ret |-> 0]}
LoaderOutcomes == {"ok", "std_exception", "other_exception"}

llama_decode(n_tokens, has_state, internal) ==
    /\ fuel.host > 0
    /\ \E ms \in Durations :
          HostDone("llama_decode",
                   [NoHostArgs EXCEPT !.n_tokens = n_tokens,
                                      !.has_state = has_state,
                                      !.internal_throws = internal.throws,
                                      !.internal_ret = internal.ret],
                   LlamaDecodeOp(HostState, n_tokens, has_state, internal, ms))

llama_model_load(use_mmap, vocab_only, loader) ==
    /\ fuel.host > 0
    /\ \E ms \in Durations :
          HostDone("llama_model_load",
                   [NoHostArgs EXCEPT !.loader = loader],
                   LlamaModelLoadOp(HostState, "m.gguf", use_mmap, vocab_only,
                                    1, 2, loader, ms))

\* ------------------------------------------------- actions: the recorders
recorderFrame ==
    <<g_tracer_provider, g_meter_provider, sdk_tracer_provider,
      sdk_meter_provider, providers, inst, meters, tracers, handles,
      scoped, host, threadVars>>

Recorded(op, md) ==
    /\ fuel.rec > 0
    /\ meter_data' = md
    /\ fuel' = [fuel EXCEPT !.rec = @ - 1]
    /\ hist' = [hist EXCEPT !.last = Last(op, "", NoHandle)]
    /\ UNCHANGED <<recorderFrame, last_count>>

CallIncrementTokens(count) ==
    Recorded("IncrementTokens", IncrementTokens(inst, meter_data, count))

CallRecordTokenTime(ms) ==
    Recorded("RecordTokenTime", RecordTokenTime(inst, meter_data, ms))

CallRecordModelLoadTime(ms) ==
    Recorded("RecordModelLoadTime", RecordModelLoadTime(inst, meter_data, ms))

CallRecordMemoryUsage(bytes) ==
    Recorded("RecordMemoryUsage", RecordMemoryUsage(inst, meter_data, bytes))

CallRecordBatchSize(size) ==
    Recorded("RecordBatchSize", RecordBatchSize(inst, meter_data, size))

CallSetActiveRequests(count) ==
    /\ fuel.active > 0
    /\ LockGuard(mtx.active)
    /\ LET r == SetActiveRequests(inst, meter_data, last_count, count)
       IN  /\ meter_data' = r.md
           /\ last_count' = r.last_count
    /\ fuel' = [fuel EXCEPT !.active = @ - 1]
    /\ hist' = [hist EXCEPT
                  !.last = Last("SetActiveRequests", "", NoHandle),
                  !.ar_args = IF Present(inst["active_requests"])
                              THEN Append(@, count) ELSE @]
    /\ UNCHANGED recorderFrame

\* ---------------------------------------------- actions: worker threads
\* Each call is cut where another thread can run: at the lock, and between
\* the reads and writes made under it.
Enter(t, op, to, name, count, budget) ==
    /\ pc[t] = "idle"
    /\ frame[t].calls < budget
    /\ pc' = [pc EXCEPT ![t] = to]
    /\ frame' = [frame EXCEPT ![t] = [@ EXCEPT !.op = op,
                                               !.name = name, !.count = count,
                                               !.diff = 0, !.present = FALSE,
                                               !.ret = NoHandle,
                                               !.calls = @ + 1]]

threadFrame ==
    <<g_tracer_provider, g_meter_provider, sdk_tracer_provider,
      sdk_meter_provider, providers, inst, scoped, host, fuel>>

T_GetTracer(t, name) ==
    /\ Enter(t, "GetTracer", "gt_lock", name, 0, MaxCalls)
    /\ UNCHANGED <<threadFrame, tracers, meters, handles, meter_data,
                   last_count, mtx, hist>>

T_GetTracerLock(t) ==
    /\ pc[t] = "gt_lock"
    /\ LockGuard(mtx.tracer)
    /\ mtx' = [mtx EXCEPT !.tracer = t]
    /\ pc' = [pc EXCEPT ![t] = "gt_find"]
    /\ UNCHANGED <<threadFrame, tracers, meters, handles, meter_data,
                   last_count, frame, hist>>

T_GetTracerFind(t) ==
    /\ pc[t] = "gt_find"
    /\ IF tracers[frame[t].name] # NoHandle
       THEN /\ frame' = [frame EXCEPT ![t].ret = tracers[frame[t].name]]
            /\ pc' = [pc EXCEPT ![t] = "gt_return"]
       ELSE /\ frame' = frame
            /\ pc' = [pc EXCEPT ![t] = "gt_miss"]
    /\ UNCHANGED <<threadFrame, tracers, meters, handles, meter_data,
                   last_count, mtx, hist>>

T_GetTracerMiss(t) ==
    /\ pc[t] = "gt_miss"
    /\ LET g == GetTracerMiss(tracers, sdk_tracer_provider, handles,
                              frame[t].name)
       IN  /\ tracers' = g.cache
           /\ handles' = g.hs
           /\ frame' = [frame EXCEPT ![t].ret = g.ret]
    /\ pc' = [pc EXCEPT ![t] = "gt_return"]
    /\ UNCHANGED <<threadFrame, meters, meter_data, last_count, mtx, hist>>

T_GetTracerReturn(t) ==
    /\ pc[t] = "gt_return"
    /\ mtx' = [mtx EXCEPT !.tracer = 0]
    /\ pc' = [pc EXCEPT ![t] = "idle"]
    /\ hist' = [hist EXCEPT !.seen_t = Seen(@, frame[t].name, TRUE, frame[t].ret)]
    /\ UNCHANGED <<threadFrame, tracers, meters, handles, meter_data,
                   last_count, frame>>

T_GetMeter(t, name) ==
    /\ Enter(t, "GetMeter", "gm_lock", name, 0, MaxCalls)
    /\ UNCHANGED <<threadFrame, tracers, meters, handles, meter_data,
                   last_count, mtx, hist>>

T_GetMeterLock(t) ==
    /\ pc[t] = "gm_lock"
    /\ LockGuard(mtx.meter)
    /\ mtx' = [mtx EXCEPT !.meter = t]
    /\ pc' = [pc EXCEPT ![t] = "gm_find"]
    /\ UNCHANGED <<threadFrame, tracers, meters, handles, meter_data,
                   last_count, frame, hist>>

T_GetMeterFind(t) ==
    /\ pc[t] = "gm_find"
    /\ IF meters[frame[t].name] # NoHandle
       THEN /\ frame' = [frame EXCEPT ![t].ret = meters[frame[t].name]]
            /\ pc' = [pc EXCEPT ![t] = "gm_return"]
       ELSE /\ frame' = frame
            /\ pc' = [pc EXCEPT ![t] = "gm_miss"]
    /\ UNCHANGED <<threadFrame, tracers, meters, handles, meter_data,
                   last_count, mtx, hist>>

T_GetMeterMiss(t) ==
    /\ pc[t] = "gm_miss"
    /\ LET g == GetMeterMiss(meters, sdk_meter_provider, handles,
                             frame[t].name)
       IN  /\ meters' = g.cache
           /\ handles' = g.hs
           /\ frame' = [frame EXCEPT ![t].ret = g.ret]
    /\ pc' = [pc EXCEPT ![t] = "gm_return"]
    /\ UNCHANGED <<threadFrame, tracers, meter_data, last_count, mtx, hist>>

T_GetMeterReturn(t) ==
    /\ pc[t] = "gm_return"
    /\ mtx' = [mtx EXCEPT !.meter = 0]
    /\ pc' = [pc EXCEPT ![t] = "idle"]
    /\ hist' = [hist EXCEPT !.seen_m = Seen(@, frame[t].name, TRUE, frame[t].ret)]
    /\ UNCHANGED <<threadFrame, tracers, meters, handles, meter_data,
                   last_count, frame>>

T_SetActiveRequests(t, count) ==
    /\ Enter(t, "SetActiveRequests", "sa_lock", "", count, MaxSets)
    /\ UNCHANGED <<threadFrame, tracers, meters, handles, meter_data,
                   last_count, mtx, hist>>

T_SetActiveLock(t) ==
    /\ pc[t] = "sa_lock"
    /\ LockGuard(mtx.active)
    /\ mtx' = [mtx EXCEPT !.active = t]
    /\ pc' = [pc EXCEPT ![t] = "sa_check"]
    /\ hist' = [hist EXCEPT !.lock_count = frame[t].count]
    /\ UNCHANGED <<threadFrame, tracers, meters, handles, meter_data,
                   last_count, frame>>

\* if (g_active_requests_counter) { diff = count - last_count; if (diff != 0)
T_SetActiveCheck(t) ==
    /\ pc[t] = "sa_check"
    /\ LET present == Present(inst["active_requests"])
           diff == ActiveDiff(frame[t].count, last_count)
       IN  /\ frame' = [frame EXCEPT ![t].present = present, ![t].diff = diff]
           /\ pc' = [pc EXCEPT ![t] = IF present /\ diff # 0
                                      THEN "sa_add" ELSE "sa_unlock"]
    /\ UNCHANGED <<threadFrame, tracers, meters, handles, meter_data,
                   last_count, mtx, hist>>

\* g_active_requests_counter->Add(diff)
T_SetActiveAdd(t) ==
    /\ pc[t] = "sa_add"
    /\ meter_data' = InstrumentCall(meter_data, "active_requests", frame[t].diff)
    /\ pc' = [pc EXCEPT ![t] = "sa_store"]
    /\ UNCHANGED <<threadFrame, tracers, meters, handles, last_count, frame,
                   mtx, hist>>

\* last_count = count
T_SetActiveStore(t) ==
    /\ pc[t] = "sa_store"
    /\ last_count' = frame[t].count
    /\ pc' = [pc EXCEPT ![t] = "sa_unlock"]
    /\ UNCHANGED <<threadFrame, tracers, meters, handles, meter_data, frame,
                   mtx, hist>>

T_SetActiveUnlock(t) ==
    /\ pc[t] = "sa_unlock"
    /\ mtx' = [mtx EXCEPT !.active = 0]
    /\ pc' = [pc EXCEPT ![t] = "idle"]
    /\ frame' = [frame EXCEPT ![t].count = 0, ![t].diff = 0,
                             ![t].present = FALSE]
    /\ UNCHANGED <<threadFrame, tracers, meters, handles, meter_data,
                   last_count, hist>>

\* -------------------------------------------------------- specifications
\* Spec: the ScopedSpan API over the provider lifecycle.  Initialize fails
\* after the tracer provider is installed, or not at all.
SpanFailPoints ==
    {StepOf("metric_exporter"), NoFailure}
SpanAttributeMaps ==
    {a \in AttributeMaps : DOMAIN a \in {{}, Keys} /\ \A k \in DOMAIN a : a[k] = "1"}

Next ==
    \/ \E f \in SpanFailPoints : Initialize(f, "std_exception")
    \/ Shutdown
    \/ \E i \in 1..MaxObj, a \in SpanAttributeMaps : Construct(i, "op", a)
    \/ \E p \in 1..MaxObj, i \in 1..MaxObj, a \in SpanAttributeMaps :
          ConstructChild(p, i, "sub", a)
    \/ \E i \in 1..MaxObj : CallAddAttribute(i, "k", "2")
    \/ \E i \in 1..MaxObj : CallAddEvent(i, "ev", << >>)
    \/ \E i \in 1..MaxObj, m \in Messages : CallRecordException(i, m)
    \/ \E i \in 1..MaxObj, m \in Messages : CallSetError(i, m)
    \/ \E i \in 1..MaxObj : Destroy(i, "normal")

Spec == Init /\ [][Next]_vars

\* SpecHost: the instrumented host functions and a plain scope left by each
\* exit path, over the provider lifecycle
\* Initialize succeeds here: one that fails before the tracer provider
\* exists leaves the globals of a fresh process
HostFailPoints == {NoFailure}

InitHost ==
    InitWith(StartGlobals, NoHistory,
             [NoFuel EXCEPT !.init = MaxSpanInit, !.host = MaxHost,
                            !.obj = MaxScopes])

NextHost ==
    \/ \E f \in HostFailPoints : Initialize(f, "std_exception")
    \/ Shutdown
    \/ \E i \in 1..MaxObj : Construct(i, "op", << >>)
    \/ \E i \in 1..MaxObj, path \in ExitPaths : Destroy(i, path)
    \/ \E n \in BatchSizes, hs \in BOOLEAN, o \in DecodeOutcomes :
          llama_decode(n, hs, o)
    \/ \E um \in BOOLEAN, l \in LoaderOutcomes :
          llama_model_load(um, FALSE, l)

SpecHost == InitHost /\ [][NextHost]_vars

\* SpecLifecycle: Initialize failing at any step, Shutdown, and a span
\* constructed in between
InitLifecycle ==
    InitWith(StartGlobals, NoHistory,
             [NoFuel EXCEPT !.init = MaxInit, !.obj = MaxScopes])

NextLifecycle ==
    \/ \E f \in 1..NoFailure, kind \in FailureKinds : Initialize(f, kind)
    \/ Shutdown
    \/ \E i \in 1..MaxObj : Construct(i, "op", << >>)
    \/ \E i \in 1..MaxObj : Destroy(i, "normal")

SpecLifecycle == InitLifecycle /\ [][NextLifecycle]_vars

\* SpecLookup: direct GetTracer / GetMeter calls over the provider lifecycle
InitLookup ==
    InitWith(StartGlobals, NoHistory, [NoFuel EXCEPT !.init = MaxInit])

NextLookup ==
    \/ \E f \in SpanFailPoints : Initialize(f, "std_exception")
    \/ Shutdown
    \/ \E n \in Names : CallGetTracer(n)
    \/ \E n \in Names : CallGetMeter(n)

SpecLookup == InitLookup /\ [][NextLookup]_vars

\* SpecAttrs: attribute writes on one span of an initialized process
InitAttrs ==
    InitWith(LiveGlobals, LiveHistory,
             [NoFuel EXCEPT !.obj = MaxScopes, !.meth = MaxAdds])

NextAttrs ==
    \/ \E i \in 1..MaxObj, a \in AttributeMaps : Construct(i, "op", a)
    \/ \E i \in 1..MaxObj, k \in Keys, v \in Vals : CallAddAttribute(i, k, v)
    \/ \E i \in 1..MaxObj : Destroy(i, "normal")

SpecAttrs == InitAttrs /\ [][NextAttrs]_vars

\* SpecStatus: every method on one span of an initialized process
StatusMessages == {"boom", "oops"}

InitStatus ==
    InitWith(LiveGlobals, LiveHistory,
             [NoFuel EXCEPT !.obj = MaxScopes, !.meth = MaxAdds])

NextStatus ==
    \/ \E i \in 1..MaxObj : Construct(i, "op", << >>)
    \/ \E i \in 1..MaxObj, v \in Vals : CallAddAttribute(i, "k", v)
    \/ \E i \in 1..MaxObj, a \in AttributeMaps : CallAddEvent(i, "ev", a)
    \/ \E i \in 1..MaxObj, m \in StatusMessages : CallRecordException(i, m)
    \/ \E i \in 1..MaxObj, m \in StatusMessages : CallSetError(i, m)
    \/ \E i \in 1..MaxObj : Destroy(i, "normal")

SpecStatus == InitStatus /\ [][NextStatus]_vars

\* SpecMetrics: the six recorders over the provider lifecycle.  Initialize
\* fails before the meter provider exists, between two instruments, or not
\* at all.
MetricFailPoints ==
    {StepOf("metric_exporter"), StepOf("model_load_time"), NoFailure}

InitMetrics ==
    InitWith(StartGlobals, NoHistory,
             [NoFuel EXCEPT !.init = MaxInit, !.rec = MaxRec, !.active = MaxSets])

NextMetrics ==
    \/ \E f \in MetricFailPoints : Initialize(f, "std_exception")
    \/ Shutdown
    \/ \E n \in TokenCounts : CallIncrementTokens(n)
    \/ \E ms \in Durations : CallRecordTokenTime(ms)
    \/ \E ms \in Durations : CallRecordModelLoadTime(ms)
    \/ \E b \in MemorySizes : CallRecordMemoryUsage(b)
    \/ \E n \in BatchSizes \ {0} : CallRecordBatchSize(n)
    \/ \E c \in ActiveCounts : CallSetActiveRequests(c)

SpecMetrics == InitMetrics /\ [][NextMetrics]_vars

\* SpecActive: SetActiveRequests over the provider lifecycle
InitActive ==
    InitWith(StartGlobals, NoHistory,
             [NoFuel EXCEPT !.init = MaxInit, !.active = MaxActive])

NextActive ==
    \/ \E f \in SpanFailPoints : Initialize(f, "std_exception")
    \/ Shutdown
    \/ \E c \in ActiveCounts : CallSetActiveRequests(c)

SpecActive == InitActive /\ [][NextActive]_vars

\* SpecThreads: worker threads of an initialized process, each making up to
\* MaxCalls GetTracer or GetMeter lookups
InitThreads == InitWith(LiveGlobals, LiveHistory, NoFuel)

NextThreads ==
    \E t \in Threads :
        \/ \E n \in Names : T_GetTracer(t, n)
        \/ T_GetTracerLock(t)
        \/ T_GetTracerFind(t)
        \/ T_GetTracerMiss(t)
        \/ T_GetTracerReturn(t)
        \/ \E n \in Names : T_GetMeter(t, n)
        \/ T_GetMeterLock(t)
        \/ T_GetMeterFind(t)
        \/ T_GetMeterMiss(t)
        \/ T_GetMeterReturn(t)

SpecThreads == InitThreads /\ [][NextThreads]_vars

\* SpecWorkers: worker threads of an initialized process, each reporting the
\* active-request count up to MaxSets times
NextWorkers ==
    \E t \in Threads :
        \/ \E c \in ActiveCounts : T_SetActiveRequests(t, c)
        \/ T_SetActiveLock(t)
        \/ T_SetActiveCheck(t)
        \/ T_SetActiveAdd(t)
        \/ T_SetActiveStore(t)
        \/ T_SetActiveUnlock(t)

SpecWorkers == InitThreads /\ [][NextWorkers]_vars

\* ================================================================ claims
progVars ==
    <<g_tracer_provider, g_meter_provider, sdk_tracer_provider,
      sdk_meter_provider, providers, inst, meter_data, tracers, meters,
      handles, last_count, scoped, host, mtx>>

progVarsButScoped ==
    <<g_tracer_provider, g_meter_provider, sdk_tracer_provider,
      sdk_meter_provider, providers, inst, meter_data, tracers, meters,
      handles, last_count, host, mtx>>

Objects == {i \in 1..MaxObj : scoped[i].st # "unborn"}

\* C1: a ScopedSpan that became active at construction has its span ended
\* exactly once, at destruction, whichever way the scope exits (normal,
\* early return, exception); one that never became active causes no End.
C1_EndedExactlyOnce ==
    /\ \A i \in Objects :
          /\ scoped[i].st = "live" => scoped[i].sp.ends = 0
          /\ scoped[i].st = "dead" =>
                /\ scoped[i].sp.ends = (IF scoped[i].sp.started THEN 1 ELSE 0)
                /\ ~scoped[i].active_
    /\ host.fn # "none" =>
          /\ host.span.sp.ends = (IF host.span.sp.started THEN 1 ELSE 0)
          /\ ~host.span.active_

C1_Witness ==
    /\ \E i \in Objects :
          /\ scoped[i].st = "dead"
          /\ scoped[i].exit = "exception"
          /\ scoped[i].sp.started
          /\ scoped[i].sp.ends = 1
    /\ host.fn = "llama_decode"
    /\ host.exit = "early_return"
    /\ host.span.sp.started
    /\ host.span.sp.ends = 1

\* C2: every ScopedSpan constructed after Shutdown and before a later
\* Initialize, root or child, is inactive and starts no span.
C2_InertAfterShutdown ==
    \A i \in Objects : scoped[i].born = "down" => ~scoped[i].sp.started

\* C3: after Initialize returned false no trace provider and no meter
\* provider is installed or held, and a ScopedSpan constructed next is
\* inactive.
C3_NoPartialProvider ==
    /\ hist.phase = "failed" =>
          /\ g_tracer_provider = NoProvider
          /\ g_meter_provider = NoProvider
          /\ sdk_tracer_provider = NoProvider
          /\ sdk_meter_provider = NoProvider
    /\ \A i \in Objects : scoped[i].born = "failed" => ~scoped[i].sp.started

\* C4: GetTracer(name) and GetMeter(name) return none whenever no provider
\* is installed: before any Initialize, after a failed Initialize, after
\* Shutdown, also for a name cached earlier.
C4_NoneWithoutProvider ==
    (hist.last.op \in {"GetTracer", "GetMeter"} /\ hist.phase # "live")
        => hist.last.h = NoHandle

\* C5: a recording function called while its instrument is absent invokes
\* no instrument and changes no instrumentation state, the last reported
\* active-request count included.
RecorderSignal ==
    [IncrementTokens |-> "tokens", RecordTokenTime |-> "token_time",
     RecordModelLoadTime |-> "model_load_time",
     RecordMemoryUsage |-> "memory_usage", RecordBatchSize |-> "batch_size",
     SetActiveRequests |-> "active_requests"]

C5_AbsentInstrumentNoOp ==
    [][(/\ hist'.last.op \in DOMAIN RecorderSignal
        /\ ~Present(inst[RecorderSignal[hist'.last.op]]))
       => UNCHANGED progVars]_vars

C5_Witness ==
    /\ hist.last.op = "SetActiveRequests"
    /\ hist.phase = "down"
    /\ ~Present(inst["active_requests"])
    /\ last_count # 0

\* C6: with a provider installed, all lookups of one name, from one thread
\* or from concurrent threads, return the same handle and the provider is
\* asked for the name at most once; distinct names give distinct handles.
C6_OneHandlePerName ==
    /\ \A n \in Names :
          /\ Cardinality(hist.seen_t[n]) <= 1
          /\ Cardinality(hist.seen_m[n]) <= 1
          /\ handles.asked_t[n] <= 1
          /\ handles.asked_m[n] <= 1
    /\ \A n1, n2 \in Names :
          n1 # n2 => /\ hist.seen_t[n1] \cap hist.seen_t[n2] = {}
                     /\ hist.seen_m[n1] \cap hist.seen_m[n2] = {}

C6_Witness ==
    /\ \A t \in Threads :
          /\ pc[t] = "idle"
          /\ frame[t].op = "GetTracer"
          /\ frame[t].name = "aux"
          /\ frame[t].calls = 1
          /\ frame[t].ret # NoHandle
    /\ handles.asked_t["aux"] = 1

\* C7: while the active-requests instrument exists, SetActiveRequests(count)
\* applies count - last_count to the counter when that is not zero, makes no
\* counter call when it is zero, and leaves last_count = count; the calls
\* 5, 5, 8, 3 from 0 give the counter +5, nothing, +3, -5.
C7_DeltaApplied ==
    /\ [][(/\ hist'.last.op = "SetActiveRequests"
          /\ Len(hist'.ar_args) = Len(hist.ar_args) + 1)
         => LET count == hist'.ar_args[Len(hist'.ar_args)]
            IN  /\ last_count' = count
                /\ meter_data'.ar_log =
                      IF count = last_count
                      THEN meter_data.ar_log
                      ELSE Append(meter_data.ar_log, count - last_count)
                /\ meter_data'.calls =
                      IF count = last_count
                      THEN meter_data.calls
                      ELSE meter_data.calls + 1]_vars
    /\ [](hist.ar_args = <<5, 5, 8, 3>> => meter_data.ar_log = <<5, 3, -5>>)

C7_Witness == hist.ar_args = <<5, 5, 8, 3>>

\* C8: concurrent SetActiveRequests calls never interleave their read of
\* last_count, their Add and their update of last_count, and when no call
\* is in progress the deltas applied to the counter sum to the count of
\* the call that took the lock last.
InActiveSection(t) == pc[t] \in {"sa_check", "sa_add", "sa_store", "sa_unlock"}

C8_SerializedDeltas ==
    /\ Cardinality({t \in Threads : InActiveSection(t)}) <= 1
    /\ (\A t \in Threads : ~InActiveSection(t))
          => meter_data.total["active_requests"] = hist.lock_count

C8_Witness ==
    /\ \A t \in Threads :
          /\ pc[t] = "idle"
          /\ frame[t].op = "SetActiveRequests"
          /\ frame[t].calls = MaxSets
    /\ Len(meter_data.ar_log) >= 3

\* C9: a child ScopedSpan constructed from an inactive parent is inactive
\* whatever the provider state: no span is started, no method reaches a
\* span, destruction ends nothing.
C9_ChildOfInactiveParent ==
    \A i \in Objects :
        (scoped[i].kind = "child" /\ ~scoped[i].parent_active)
            => /\ ~scoped[i].active_
               /\ ~scoped[i].span_
               /\ scoped[i].sp = NoSpan

C9_Witness ==
    \E i \in Objects :
        /\ scoped[i].kind = "child"
        /\ ~scoped[i].parent_active
        /\ scoped[i].born = "live"
        /\ scoped[i].st = "dead"
        /\ Len(scoped[i].adds) + scoped[i].notes >= 1

\* C10: the attributes a span carries when it ends map each key to the
\* value of the last write to it, an AddAttribute overriding an initial
\* attribute with the same key.
C10_LastWriteWins ==
    \A i \in Objects :
        (scoped[i].st = "dead" /\ scoped[i].sp.started)
            => \A key \in AttrKeys :
                  LET init == scoped[i].init
                      adds == scoped[i].adds
                      writes == {n \in 1..Len(adds) : adds[n][1] = key}
                      last == CHOOSE n \in writes : \A m \in writes : m <= n
                  IN  scoped[i].sp.attrs[key] =
                          IF writes # {} THEN adds[last][2]
                          ELSE IF key \in DOMAIN init THEN init[key]
                          ELSE NoValue

C10_Witness ==
    \E i \in Objects :
        /\ scoped[i].st = "dead"
        /\ scoped[i].sp.started
        /\ "k" \in DOMAIN scoped[i].init
        /\ scoped[i].init["k"] = "1"
        /\ scoped[i].adds = << <<"k", "1">>, <<"k", "2">> >>
        /\ scoped[i].sp.attrs["k"] = "2"

\* C11: on a ScopedSpan whose active flag is false, never started or already
\* ended, AddAttribute, AddEvent, RecordException and SetError change
\* nothing: the object, its flag and every underlying span stay as they are.
C11_InactiveMethodsNoOp ==
    \A i \in Objects :
        ~scoped[i].active_ =>
            /\ \A key \in Keys, value \in Vals :
                  AddAttribute(scoped[i], key, value) = scoped[i]
            /\ AddEvent(scoped[i], "ev", << >>) = scoped[i]
            /\ \A m \in Messages :
                  /\ RecordException(scoped[i], m) = scoped[i]
                  /\ SetError(scoped[i], m) = scoped[i]
            /\ scoped[i].sp.started => scoped[i].st = "dead"
            /\ (scoped[i].st = "live" /\ scoped[i].notes + Len(scoped[i].adds) > 0)
                  => scoped[i].sp = NoSpan

C11_Witness ==
    /\ \E i \in Objects :
          /\ scoped[i].st = "live"
          /\ ~scoped[i].active_
          /\ scoped[i].notes + Len(scoped[i].adds) > 0
          /\ sdk_tracer_provider # NoProvider
    /\ \E j \in Objects :
          /\ scoped[j].st = "dead"
          /\ scoped[j].sp.started
          /\ scoped[j].sp.ends = 1

\* C12: RecordException(e) and SetError(msg) on an active span set the span
\* status to error with the message and do nothing else: the span is not
\* ended, the flag stays true, attributes and events are unchanged, and a
\* later AddAttribute or AddEvent still takes effect.
C12_ErrorOnlyAnnotates ==
    [][\A i \in Objects :
          /\ (/\ hist'.last.op \in {"RecordException", "SetError"}
              /\ scoped[i].active_
              /\ scoped'[i].notes = scoped[i].notes + 1)
             => /\ scoped'[i].sp = [scoped[i].sp EXCEPT
                                      !.status = "error",
                                      !.msg = hist'.last.arg]
                /\ scoped'[i].active_
                /\ scoped'[i].span_
                /\ scoped'[i].st = "live"
                /\ UNCHANGED progVarsButScoped
                /\ \A j \in 1..MaxObj : j # i => scoped'[j] = scoped[j]
          /\ (/\ hist'.last.op = "AddAttribute"
              /\ scoped[i].sp.status = "error"
              /\ Len(scoped'[i].adds) = Len(scoped[i].adds) + 1)
             => /\ scoped'[i].sp.attrs[hist'.last.arg] =
                      scoped'[i].adds[Len(scoped'[i].adds)][2]
                /\ scoped'[i].sp.status = "error"
          /\ (/\ hist'.last.op = "AddEvent"
              /\ scoped[i].sp.status = "error"
              /\ scoped'[i].notes = scoped[i].notes + 1)
             => Len(scoped'[i].sp.events) = Len(scoped[i].sp.events) + 1
      ]_vars

C12_Witness ==
    \E i \in Objects :
        /\ scoped[i].st = "dead"
        /\ scoped[i].sp.status = "error"
        /\ scoped[i].sp.msg = "oops"
        /\ scoped[i].sp.ends = 1
        /\ scoped[i].sp.attrs["k"] = "2"
        /\ Len(scoped[i].sp.events) = 1
        /\ scoped[i].notes = 2

C14_NoPairLive ==
    /\ hist.phase \in {"fresh", "failed", "down"}
    /\ ~(g_tracer_provider # NoProvider /\ g_meter_provider # NoProvider)

C14_ShutdownNoOp ==
    [][(C14_NoPairLive /\ hist'.phase = "down" /\ UNCHANGED <<scoped, fuel>>)
          => UNCHANGED progVars]_vars

\* ------------------------------- the build without LLAMA_OTEL_ENABLE
\* #ifdef LLAMA_OTEL_ENABLE / #define LLAMA_OTEL_ENABLED 1 / #else ... 0:
\* the macro is not defined in this build
LLAMA_OTEL_ENABLE == FALSE

\* mutant: the guarded text is compiled whatever the macro says
Compiled_Always(enabled, body, rest) == body

\* #if LLAMA_OTEL_ENABLED body #else rest #endif
Compiled(enabled, body, rest) == IF enabled THEN body ELSE rest

\* Initialize: the guarded body, or `return false`
BuildInitialize(failAt, kind) ==
    /\ fuel.init > 0
    /\ LET r == Compiled(LLAMA_OTEL_ENABLE,
                         InitializeOp(Globals, failAt, kind),
                         [G |-> Globals, called |-> FALSE, meter |-> NoHandle,
                          ret |-> "false"])
       IN  /\ SetGlobals(r.G)
           /\ hist' = [hist EXCEPT
                         !.last = Last("Initialize", r.ret, NoHandle),
                         !.phase = CASE r.ret = "true" -> "live"
                                     [] r.ret = "false" -> "failed"
                                     [] OTHER -> "propagated",
                         !.seen_m = Seen(@, DefaultName, r.called, r.meter)]
    /\ fuel' = [fuel EXCEPT !.init = @ - 1]
    /\ UNCHANGED <<tracers, last_count, scoped, host, pc, frame, mtx>>

\* Shutdown: the guarded body, or nothing
BuildShutdown ==
    /\ hist.phase # "down"
    /\ SetGlobals(Compiled(LLAMA_OTEL_ENABLE, ShutdownOp(Globals), Globals))
    /\ hist' = [hist EXCEPT !.last = NoCall, !.phase = "down"]
    /\ UNCHANGED <<tracers, last_count, scoped, host, pc, frame, mtx, fuel>>

\* an object built with no constructor body: active_ keeps its default
BuildNoLookup(e) ==
    [obj |-> e, cache |-> tracers, hs |-> handles, called |-> FALSE,
     tracer |-> NoHandle]

\* ScopedSpan span(name, attributes) and ScopedSpan span(parent, name, ...)
BuildConstruct(p, i, name, attributes) ==
    /\ fuel.obj > 0
    /\ NextObject(i)
    /\ p # 0 => scoped[p].st = "live"
    /\ LET r == Compiled(LLAMA_OTEL_ENABLE,
                         IF p = 0
                         THEN ScopedSpanRoot(NoObject, tracers,
                                             sdk_tracer_provider, handles,
                                             name, attributes)
                         ELSE ScopedSpanChild(NoObject, scoped[p], tracers,
                                              sdk_tracer_provider, handles,
                                              name, attributes),
                         BuildNoLookup(NoObject))
       IN  /\ scoped' = [scoped EXCEPT ![i] =
                           [r.obj EXCEPT
                              !.st = "live",
                              !.kind = IF p = 0 THEN "root" ELSE "child",
                              !.parent_active =
                                  IF p = 0 THEN FALSE ELSE scoped[p].active_,
                              !.born = hist.phase,
                              !.init = attributes]]
           /\ tracers' = r.cache
           /\ handles' = r.hs
           /\ hist' = [hist EXCEPT
                         !.last = NoCall,
                         !.seen_t = Seen(@, DefaultName, r.called, r.tracer)]
    /\ fuel' = [fuel EXCEPT !.obj = @ - 1]
    /\ UNCHANGED <<lifecycleVars, host, threadVars>>

\* the four span methods: the guarded body, or nothing
BuildMethod(i, op, arg) ==
    /\ fuel.meth > 0
    /\ scoped[i].st = "live"
    /\ LET e == scoped[i]
           body == CASE op = "AddAttribute" -> AddAttribute(e, arg, "1")
                     [] op = "AddEvent" -> AddEvent(e, arg, << >>)
                     [] op = "RecordException" -> RecordException(e, arg)
                     [] OTHER -> SetError(e, arg)
       IN  scoped' = [scoped EXCEPT ![i] =
                        [Compiled(LLAMA_OTEL_ENABLE, body, e) EXCEPT
                            !.notes = @ + 1]]
    /\ fuel' = [fuel EXCEPT !.meth = @ - 1]
    /\ hist' = [hist EXCEPT !.last = Last(op, arg, NoHandle)]
    /\ UNCHANGED spanFrame

\* ~ScopedSpan: the guarded body, or nothing
BuildDestroy(i) ==
    /\ scoped[i].st = "live"
    /\ \A j \in 1..MaxObj : j > i => scoped[j].st # "live"
    /\ scoped' = [scoped EXCEPT ![i] =
                    [Compiled(LLAMA_OTEL_ENABLE, Destructor(scoped[i]),
                              scoped[i])
                       EXCEPT !.st = "dead", !.exit = "normal"]]
    /\ hist' = [hist EXCEPT !.last = NoCall]
    /\ UNCHANGED <<spanFrame, fuel>>

\* the five recorders: the guarded body, or nothing
BuildRecord(op, v) ==
    /\ fuel.rec > 0
    /\ LET body ==
             CASE op = "IncrementTokens" -> IncrementTokens(inst, meter_data, v)
               [] op = "RecordTokenTime" -> RecordTokenTime(inst, meter_data, v)
               [] op = "RecordModelLoadTime" ->
                      RecordModelLoadTime(inst, meter_data, v)
               [] op = "RecordMemoryUsage" ->
                      RecordMemoryUsage(inst, meter_data, v)
               [] OTHER -> RecordBatchSize(inst, meter_data, v)
       IN  meter_data' = Compiled(LLAMA_OTEL_ENABLE, body, meter_data)
    /\ fuel' = [fuel EXCEPT !.rec = @ - 1]
    /\ hist' = [hist EXCEPT !.last = Last(op, "", NoHandle)]
    /\ UNCHANGED <<recorderFrame, last_count>>

\* SetActiveRequests: the guarded body (lock, static last_count), or nothing
BuildSetActiveRequests(count) ==
    /\ fuel.rec > 0
    /\ LET r == Compiled(LLAMA_OTEL_ENABLE,
                         SetActiveRequests(inst, meter_data, last_count, count),
                         [md |-> meter_data, last_count |-> last_count])
       IN  /\ meter_data' = r.md
           /\ last_count' = r.last_count
    /\ fuel' = [fuel EXCEPT !.rec = @ - 1]
    /\ hist' = [hist EXCEPT !.last = Last("SetActiveRequests", "", NoHandle)]
    /\ UNCHANGED recorderFrame

BuildMethods == {"AddAttribute", "AddEvent", "RecordException", "SetError"}
BuildRecorders ==
    {"IncrementTokens", "RecordTokenTime", "RecordModelLoadTime",
     "RecordMemoryUsage", "RecordBatchSize"}

\* SpecBuild: every facade call in the build without LLAMA_OTEL_ENABLE
InitBuild ==
    InitWith(StartGlobals, NoHistory,
             [NoFuel EXCEPT !.init = MaxSpanInit, !.obj = MaxObj,
                            !.meth = MaxMeth, !.rec = MaxRec])

NextBuild ==
    \/ BuildInitialize(NoFailure, "std_exception")
    \/ BuildShutdown
    \/ \E p \in 0..MaxObj, i \in 1..MaxObj : BuildConstruct(p, i, "op", << >>)
    \/ \E i \in 1..MaxObj, op \in BuildMethods : BuildMethod(i, op, "k")
    \/ \E i \in 1..MaxObj : BuildDestroy(i)
    \/ \E op \in BuildRecorders : BuildRecord(op, 2)
    \/ BuildSetActiveRequests(3)

SpecBuild == InitBuild /\ [][NextBuild]_vars

\* C15: in the build without LLAMA_OTEL_ENABLE, whatever calls were made,
\* no span was started, no tracer, meter or instrument was called or even
\* obtained, Initialize returned false, and every ScopedSpan is inactive.
C15_CompiledOutInert ==
    /\ \A i \in Objects : ~scoped[i].active_ /\ scoped[i].sp = NoSpan
    /\ Globals = StartGlobals
    /\ tracers = [n \in Names |-> NoHandle]
    /\ last_count = 0
    /\ hist.phase \in {"fresh", "failed", "down"}
    /\ hist.last.op = "Initialize" => hist.last.arg = "false"

C15_Witness ==
    /\ hist.phase = "failed"
    /\ scoped[1].st = "live" /\ scoped[1].notes > 0
    /\ scoped[2].st = "dead" /\ scoped[2].kind = "child"
    /\ fuel.rec = 0
    /\ hist.last.op = "SetActiveRequests"

\* ------------------------------------------- token counts in one interval
MaxTokenCalls == 2

\* IncrementTokens(count), the argument kept with the call
CountTokens(count) ==
    /\ fuel.rec > 0
    /\ meter_data' = IncrementTokens(inst, meter_data, count)
    /\ fuel' = [fuel EXCEPT !.rec = @ - 1]
    /\ hist' = [hist EXCEPT
                  !.last = Last("IncrementTokens", to_string(count), NoHandle)]
    /\ UNCHANGED <<recorderFrame, last_count>>

\* SpecTokens: IncrementTokens calls between Initialize and Shutdown, with
\* another recorder interleaved
InitTokens ==
    InitWith(StartGlobals, NoHistory,
             [NoFuel EXCEPT !.init = MaxInit, !.rec = MaxTokenCalls])

NextTokens ==
    \/ \E f \in MetricFailPoints : Initialize(f, "std_exception")
    \/ Shutdown
    \/ \E n \in TokenCounts : CountTokens(n)
    \/ \E n \in BatchSizes \ {0} : CallRecordBatchSize(n)

SpecTokens == InitTokens /\ [][NextTokens]_vars

\* C16: from a successful Initialize to the next Shutdown, every
\* IncrementTokens(n) adds exactly n to the total of the tokens counter and
\* no other step (another recorder, an Initialize that fails) changes that
\* total, so the total is the sum of the counts passed in that interval.
\* A later successful Initialize is left out: it starts an interval itself.
C16_TokensSummed ==
    [][(/\ hist.phase = "live"
        /\ hist'.phase # "down"
        /\ ~(fuel'.init < fuel.init /\ hist'.phase = "live"))
       => /\ \A n \in TokenCounts :
                (/\ fuel'.rec < fuel.rec
                 /\ hist'.last = Last("IncrementTokens", to_string(n), NoHandle))
                => meter_data'.total["tokens"] = meter_data.total["tokens"] + n
          /\ (fuel'.rec = fuel.rec \/ hist'.last.op # "IncrementTokens")
                => meter_data'.total["tokens"] = meter_data.total["tokens"]
      ]_vars

\* the providers created by some Initialize on which Shutdown was not called
NotShutDown(created, down) == (1..created) \ down

\* C17: after any sequence of Initialize and Shutdown calls, Initialize
\* called again while a pair is live included, at most one trace provider
\* and at most one metric provider is created and not yet shut down.
C17_AtMostOnePair ==
    /\ Cardinality(NotShutDown(providers.tp, providers.tp_down)) <= 1
    /\ Cardinality(NotShutDown(providers.mp, providers.mp_down)) <= 1

\* C18: over any sequence of Initialize, Shutdown and recording calls in one
\* process each of the six instruments is created at most once.
C18_CreatedOnce ==
    \A s \in Signals : meter_data.made[s] <= 1

\* C19: when Shutdown returns, both provider slots are empty, the six
\* instrument slots are empty, and the tracer cache and the meter cache
\* hold no handle.  A Shutdown step is the step that sets the phase to
\* "down" without touching a scoped object.
C19_AllReleased ==
    [][(hist'.phase = "down" /\ UNCHANGED <<scoped, fuel>>)
          => /\ g_tracer_provider' = NoProvider
             /\ g_meter_provider' = NoProvider
             /\ \A s \in Signals : ~Present(inst'[s])
             /\ \A n \in Names : tracers'[n] = NoHandle
             /\ \A n \in Names : meters'[n] = NoHandle]_vars

\* C20: a child ScopedSpan constructed from an active parent, a tracer being
\* resolvable, starts a span whose recorded parent is the parent's span.
\* StartSpan records parent 0 when it is given no parent, so a linked child
\* has a parent other than 0.
C20_ChildLinked ==
    \A i \in Objects :
        (/\ scoped[i].kind = "child"
         /\ scoped[i].parent_active
         /\ scoped[i].sp.started)
            => scoped[i].sp.parent # 0

\* C21: Initialize always finishes by returning a boolean: whichever step
\* fails and whatever is thrown, no failure leaves Initialize.  The phase
\* is "propagated" when the last Initialize was left by an exception.
C21_InitializeReturns ==
    hist.phase # "propagated"

DestructorTest(i) ==
    /\ scoped[i].st = "live"
    /\ scoped' = [scoped EXCEPT ![i] =
                    IF @.active_ /\ @.span_
                    THEN [@ EXCEPT !.sp = End(@), !.st = "ending"]
                    ELSE [@ EXCEPT !.st = "dead", !.exit = "normal"]]
    /\ hist' = [hist EXCEPT !.last = NoCall]
    /\ UNCHANGED <<spanFrame, fuel>>

\* the destruction logic entered again while End is running
DestructorReentered(i) ==
    /\ scoped[i].st = "ending"
    /\ scoped' = [scoped EXCEPT ![i] = Destructor(@)]
    /\ hist' = [hist EXCEPT !.last = Last("~ScopedSpan", "", NoHandle)]
    /\ UNCHANGED <<spanFrame, fuel>>

\* ... active_ = false; }
DestructorClear(i) ==
    /\ scoped[i].st = "ending"
    /\ scoped' = [scoped EXCEPT ![i] =
                    [@ EXCEPT !.active_ = FALSE, !.st = "dead",
                              !.exit = "normal"]]
    /\ hist' = [hist EXCEPT !.last = NoCall]
    /\ UNCHANGED <<spanFrame, fuel>>

\* SpecDestruct: spans of a live provider, destroyed statement by statement
NextDestruct ==
    \/ \E i \in 1..MaxObj : Construct(i, "op", << >>)
    \/ \E i \in 1..MaxObj, v \in Vals : CallAddAttribute(i, "k", v)
    \/ \E i \in 1..MaxObj, m \in StatusMessages : CallSetError(i, m)
    \/ \E i \in 1..MaxObj : DestructorTest(i)
    \/ \E i \in 1..MaxObj : DestructorReentered(i)
    \/ \E i \in 1..MaxObj : DestructorClear(i)

SpecDestruct == InitStatus /\ [][NextDestruct]_vars

\* C23: in the destruction of an active ScopedSpan the flag is cleared
\* before End is invoked, so while End runs the object is inactive and a
\* re-entered destruction does not call End again.
C23_FlagClearedBeforeEnd ==
    \A i \in 1..MaxObj :
        /\ scoped[i].st = "ending" => ~scoped[i].active_
        /\ scoped[i].sp.ends <= 1

\* SpecRoot: root spans with any initial attributes, constructed before,
\* during and after the life of a provider
InitRoot ==
    InitWith(StartGlobals, NoHistory,
             [NoFuel EXCEPT !.init = MaxSpanInit, !.obj = MaxScopes,
                            !.meth = MaxAdds])

NextRoot ==
    \/ \E f \in SpanFailPoints : Initialize(f, "std_exception")
    \/ Shutdown
    \/ \E i \in 1..MaxObj, a \in AttributeMaps : Construct(i, "op", a)
    \/ \E i \in 1..MaxObj : Destroy(i, "normal")

SpecRoot == InitRoot /\ [][NextRoot]_vars

\* C24: constructing a root ScopedSpan(name, attributes) after a successful
\* Initialize and before Shutdown starts one span with that name, carrying
\* exactly the initial attributes, not ended, and sets the flag; when no
\* tracer is resolvable (none cached, no provider installed) the object
\* holds no span and stays inactive.
C24_RootConstruction ==
    [][\A i \in 1..MaxObj :
          (scoped[i].st = "unborn" /\ scoped'[i].st = "live"
                                   /\ scoped'[i].kind = "root")
          => /\ hist.phase = "live"
                => /\ scoped'[i].active_ /\ scoped'[i].span_
                   /\ scoped'[i].sp.started
                   /\ scoped'[i].sp.name = "op"
                   /\ scoped'[i].sp.ends = 0
                   /\ scoped'[i].sp.events = << >>
                   /\ \A k \in AttrKeys :
                         scoped'[i].sp.attrs[k] =
                            IF k \in DOMAIN scoped'[i].init
                            THEN scoped'[i].init[k] ELSE NoValue
             /\ (tracers[DefaultName] = NoHandle
                    /\ sdk_tracer_provider = NoProvider)
                => /\ ~scoped'[i].active_ /\ ~scoped'[i].span_
                   /\ scoped'[i].sp = NoSpan]_vars

\* a root span built in a live process with two initial attributes
C24_Witness ==
    \E i \in Objects :
        /\ scoped[i].kind = "root"
        /\ scoped[i].born = "live"
        /\ scoped[i].st = "live"
        /\ DOMAIN scoped[i].init = Keys
        /\ scoped[i].sp.attrs["k"] = "1"
        /\ scoped[i].sp.attrs["j"] = "2"

\* C25: whenever Initialize returned true (and until the next Initialize or
\* Shutdown), each of the six instruments exists and belongs to the metric
\* provider that this Initialize created and installed.
C25_InstrumentsOfInstalledProvider ==
    hist.phase = "live"
        => \A s \in Signals :
              /\ Present(inst[s])
              /\ inst[s].prov = g_meter_provider
              /\ inst[s].prov = sdk_meter_provider

\* ------------------------------ recorders on threads, Shutdown on another
\* if (g_..._counter) {: the recorder is entered and reads its instrument
\* pointer, with no lock
T_RecordCheck(t, op, v) ==
    /\ pc[t] = "idle"
    /\ frame[t].calls < MaxRec
    /\ LET present == Present(inst[RecorderSignal[op]])
       IN  /\ frame' = [frame EXCEPT ![t] = [@ EXCEPT !.op = op, !.count = v,
                                                      !.present = present,
                                                      !.calls = @ + 1]]
           /\ pc' = [pc EXCEPT ![t] = IF present THEN "rc_call" ELSE "idle"]
    /\ UNCHANGED <<threadFrame, tracers, meters, handles, meter_data,
                   last_count, mtx, hist>>

\* g_..._counter->Add(v) / ->Record(v): on a pointer that Shutdown has reset
\* in between the behaviour is undefined: the thread faults, the call is
\* lost, or it lands on the released instrument
T_RecordCall(t) ==
    /\ pc[t] = "rc_call"
    /\ LET s == RecorderSignal[frame[t].op]
           done == InstrumentCall(meter_data, s, frame[t].count)
       IN  IF Present(inst[s])
           THEN meter_data' = done /\ pc' = [pc EXCEPT ![t] = "idle"]
           ELSE \/ meter_data' = meter_data /\ pc' = [pc EXCEPT ![t] = "fault"]
                \/ meter_data' = meter_data /\ pc' = [pc EXCEPT ![t] = "idle"]
                \/ meter_data' = done /\ pc' = [pc EXCEPT ![t] = "idle"]
    /\ frame' = [frame EXCEPT ![t].count = 0, ![t].present = FALSE]
    /\ UNCHANGED <<threadFrame, tracers, meters, handles, last_count, mtx,
                   hist>>

\* SpecRace: worker threads of an initialized process calling recorders
\* while Shutdown runs
NextRace ==
    \/ Shutdown
    \/ \E t \in Threads :
          \/ \E n \in TokenCounts : T_RecordCheck(t, "IncrementTokens", n)
          \/ \E n \in BatchSizes \ {0} : T_RecordCheck(t, "RecordBatchSize", n)
          \/ T_RecordCall(t)
          \/ \E c \in ActiveCounts : T_SetActiveRequests(t, c)
          \/ T_SetActiveLock(t)
          \/ T_SetActiveCheck(t)
          \/ T_SetActiveAdd(t)
          \/ T_SetActiveStore(t)
          \/ T_SetActiveUnlock(t)

SpecRace == InitThreads /\ [][NextRace]_vars

\* C26: in no interleaving of Shutdown with a recorder on another thread
\* does the recorder pass its instrument-present check and then invoke an
\* instrument that Shutdown has released: a recorder that is about to call
\* its instrument still has it, and no thread faults.
C26_NoUseAfterRelease ==
    \A t \in Threads :
        /\ pc[t] = "rc_call" => Present(inst[RecorderSignal[frame[t].op]])
        /\ pc[t] = "sa_add" => Present(inst["active_requests"])
        /\ pc[t] # "fault"

\* C27: every handle held in the tracer cache or the meter cache, and so
\* every handle GetTracer(name) or GetMeter(name) returns, comes from the
\* provider that is installed now, never from an earlier or shut-down one.
C27_CachesOfInstalledProvider ==
    \A n \in Names :
        /\ tracers[n] # NoHandle
              => /\ tracers[n].prov = sdk_tracer_provider
                 /\ tracers[n].prov \notin providers.tp_down
        /\ meters[n] # NoHandle
              => /\ meters[n].prov = sdk_meter_provider
                 /\ meters[n].prov \notin providers.mp_down

\* C28: whenever the active-requests instrument exists and a count has just
\* been reported to it, the total applied to the instrument equals that
\* count, also on the fresh counter of an Initialize that follows Shutdown.
C28_TotalIsLastCount ==
    (/\ Present(inst["active_requests"])
     /\ hist.last.op = "SetActiveRequests")
        => /\ hist.ar_args # << >>
           /\ meter_data.total["active_requests"]
                 = hist.ar_args[Len(hist.ar_args)]

\* ------------------------------------------------- copies of a ScopedSpan
\* the object whose sp is the span that span_ of object i points to
SpanOwner(i) == IF scoped[i].of = 0 THEN i ELSE scoped[i].of

\* ScopedSpan copy = original: the implicit copy constructor copies span_
\* (a shared_ptr to the same span) and active_
CopyConstruct(p, i) ==
    /\ NextObject(i)
    /\ scoped[p].st = "live"
    /\ scoped' = [scoped EXCEPT ![i] =
                    [scoped[p] EXCEPT !.kind = "copy", !.of = SpanOwner(p),
                                      !.born = hist.phase, !.init = << >>,
                                      !.adds = << >>, !.notes = 0]]
    /\ hist' = [hist EXCEPT !.last = Last("copy", "", NoHandle)]
    /\ UNCHANGED <<spanFrame, fuel>>

\* ~ScopedSpan on an original or a copy: End goes to the shared span
DestroyShared(i) ==
    /\ scoped[i].st = "live"
    /\ \A j \in 1..MaxObj : j > i => scoped[j].st # "live"
    /\ scoped' = IF scoped[i].active_ /\ scoped[i].span_
                 THEN [scoped EXCEPT ![SpanOwner(i)].sp = End(@),
                                     ![i].active_ = FALSE,
                                     ![i].st = "dead", ![i].exit = "normal"]
                 ELSE [scoped EXCEPT ![i].st = "dead", ![i].exit = "normal"]
    /\ hist' = [hist EXCEPT !.last = NoCall]
    /\ UNCHANGED <<spanFrame, fuel>>

\* SpecCopy: a span of a live provider, written to, copied and destroyed
NextCopy ==
    \/ \E i \in 1..MaxObj : Construct(i, "op", << >>)
    \/ \E v \in Vals : CallAddAttribute(1, "k", v)
    \/ \E m \in StatusMessages : CallSetError(1, m)
    \/ \E p \in 1..MaxObj, i \in 1..MaxObj : CopyConstruct(p, i)
    \/ \E i \in 1..MaxObj : DestroyShared(i)

SpecCopy == InitStatus /\ [][NextCopy]_vars

\* C29: each started span is referenced by at most one ScopedSpan object
\* whose flag is true, whatever is done with the objects (copying
\* included), and so no span is ended twice.
C29_OneActiveOwner ==
    /\ \A i \in Objects, j \in Objects :
          (i # j /\ scoped[i].active_ /\ scoped[j].active_)
              => SpanOwner(i) # SpanOwner(j)
    /\ \A i \in Objects : scoped[i].sp.ends <= 1

\* C30: AddEvent(name, attributes) on an active span records one event that
\* carries the given name and every key/value pair of the given attributes.
C30_EventCarriesAttributes ==
    \A i \in Objects :
        (scoped[i].st = "live" /\ scoped[i].active_)
            => \A a \in AttributeMaps :
                  LET before == scoped[i].sp.events
                      after == AddEvent(scoped[i], "ev", a).sp.events
                  IN  /\ Len(after) = Len(before) + 1
                      /\ after[Len(after)].name = "ev"
                      /\ after[Len(after)].attrs = a

\* ------------------------------------------- memory usage in one lifetime
MaxMemoryCalls == 2
MemoryReadings == {2, 3}

\* RecordMemoryUsage(bytes), the argument kept with the call
ReportMemoryUsage(bytes) ==
    /\ fuel.rec > 0
    /\ meter_data' = RecordMemoryUsage(inst, meter_data, bytes)
    /\ fuel' = [fuel EXCEPT !.rec = @ - 1]
    /\ hist' = [hist EXCEPT
                  !.last = Last("RecordMemoryUsage", to_string(bytes), NoHandle)]
    /\ UNCHANGED <<recorderFrame, last_count>>

\* SpecMemory: RecordMemoryUsage and SetActiveRequests calls over the
\* provider lifecycle
InitMemory ==
    InitWith(StartGlobals, NoHistory,
             [NoFuel EXCEPT !.init = MaxInit, !.rec = MaxMemoryCalls,
                            !.active = MaxSets])

NextMemory ==
    \/ \E f \in MetricFailPoints : Initialize(f, "std_exception")
    \/ Shutdown
    \/ \E b \in MemoryReadings : ReportMemoryUsage(b)
    \/ \E c \in ActiveCounts : CallSetActiveRequests(c)

SpecMemory == InitMemory /\ [][NextMemory]_vars

\* C31: RecordMemoryUsage(bytes) adds its argument to the memory-usage
\* counter as it is, with no conversion to a delta: while the meter provider
\* of the layer stays the same, every RecordMemoryUsage(b) on a present
\* instrument moves the total by exactly b and no other step moves it, so
\* the total is the sum of the arguments and not the most recent one.
C31_MemoryUsageSummed ==
    [][g_meter_provider' = g_meter_provider
       => /\ \A b \in MemoryReadings :
                (/\ fuel'.rec < fuel.rec
                 /\ hist'.last = Last("RecordMemoryUsage", to_string(b), NoHandle)
                 /\ Present(inst["memory_usage"]))
                => meter_data'.total["memory_usage"]
                       = meter_data.total["memory_usage"] + b
          /\ (fuel'.rec = fuel.rec \/ ~Present(inst["memory_usage"]))
                => meter_data'.total["memory_usage"]
                       = meter_data.total["memory_usage"]
      ]_vars

\* two calls in one lifetime, 2 then 3: the counter holds 5, while the
\* active-requests counter set to 3 and then 5 holds 5, the last count
C31_Witness ==
    /\ hist.phase = "live"
    /\ providers.mp = 1
    /\ fuel.rec = 0
    /\ hist.last = Last("RecordMemoryUsage", "3", NoHandle)
    /\ meter_data.total["memory_usage"] = 5
    /\ hist.ar_args = <<3, 5>>
    /\ meter_data.total["active_requests"] = 5

\* ------------------------------------------ every call on worker threads
\* the locks of otel.cpp: the static mutexes of GetTracer, GetMeter and
\* SetActiveRequests (q.mutex of the server queue is the host's)
LayerLocks == {"tracer", "meter", "active"}

\* the layer's locks a thread holds
HeldBy(t) == {l \in LayerLocks : mtx[l] = t}

\* Initialize() is entered
T_Initialize(t) ==
    /\ Enter(t, "Initialize", "in_start", "", 0, MaxCalls)
    /\ UNCHANGED <<threadFrame, tracers, meters, handles, meter_data,
                   last_count, mtx, hist>>

\* an Initialize that throws before GetMeter() takes no lock
T_InitializeThrows(t, failAt) ==
    /\ pc[t] = "in_start"
    /\ LET r == InitializeOp(Globals, failAt, "std_exception")
       IN  /\ ~r.called
           /\ SetGlobals(r.G)
           /\ hist' = [hist EXCEPT !.last = NoCall, !.phase = "failed"]
    /\ pc' = [pc EXCEPT ![t] = "idle"]
    /\ UNCHANGED <<tracers, last_count, scoped, host, frame, mtx, fuel>>

\* Initialize reaches GetMeter(): the lock_guard of the meter cache
T_InitializeLock(t) ==
    /\ pc[t] = "in_start"
    /\ LockGuard(mtx.meter)
    /\ mtx' = [mtx EXCEPT !.meter = t]
    /\ pc' = [pc EXCEPT ![t] = "in_meter"]
    /\ UNCHANGED <<threadFrame, tracers, meters, handles, meter_data,
                   last_count, frame, hist>>

\* GetMeter() returns, the instruments are created, Initialize returns
T_InitializeReturn(t) ==
    /\ pc[t] = "in_meter"
    /\ LET r == InitializeOp(Globals, NoFailure, "std_exception")
       IN  /\ SetGlobals(r.G)
           /\ hist' = [hist EXCEPT
                         !.last = NoCall, !.phase = "live",
                         !.seen_m = Seen(@, DefaultName, r.called, r.meter)]
    /\ mtx' = [mtx EXCEPT !.meter = 0]
    /\ pc' = [pc EXCEPT ![t] = "idle"]
    /\ UNCHANGED <<tracers, last_count, scoped, host, frame, fuel>>

\* g_active_requests_counter->Add(diff) on a pointer that Shutdown has
\* reset since the test: one outcome of the undefined call is a fault
T_SetActiveAddFault(t) ==
    /\ pc[t] = "sa_add"
    /\ ~Present(inst["active_requests"])
    /\ pc' = [pc EXCEPT ![t] = "fault"]
    /\ UNCHANGED <<threadFrame, tracers, meters, handles, meter_data,
                   last_count, frame, mtx, hist>>

\* server_queue_add_task(q, task) is entered; the span of thread t's call
\* is scoped[t]
T_AddTask(t) ==
    /\ t \in 1..MaxObj
    /\ scoped[t].st = "unborn"
    /\ Enter(t, "server_queue_add_task", "q_lock", "", 0, MaxCalls)
    /\ UNCHANGED <<threadFrame, tracers, meters, handles, meter_data,
                   last_count, mtx, hist>>

\* std::lock_guard<std::mutex> lock(q.mutex)
T_QueueLock(t) ==
    /\ pc[t] = "q_lock"
    /\ LockGuard(mtx.queue)
    /\ mtx' = [mtx EXCEPT !.queue = t]
    /\ pc' = [pc EXCEPT ![t] = "sp_lock"]
    /\ UNCHANGED <<threadFrame, tracers, meters, handles, meter_data,
                   last_count, frame, hist>>

\* LLAMA_OTEL_SPAN: the constructor calls GetTracer(), which locks
T_SpanLock(t) ==
    /\ pc[t] = "sp_lock"
    /\ LockGuard(mtx.tracer)
    /\ mtx' = [mtx EXCEPT !.tracer = t]
    /\ pc' = [pc EXCEPT ![t] = "sp_start"]
    /\ UNCHANGED <<threadFrame, tracers, meters, handles, meter_data,
                   last_count, frame, hist>>

\* GetTracer() returns and the constructor starts the span
T_SpanStart(t) ==
    /\ pc[t] = "sp_start"
    /\ LET r == ScopedSpanRoot(NoObject, tracers, sdk_tracer_provider, handles,
                               "server_queue_add_task", << >>)
       IN  /\ scoped' = [scoped EXCEPT ![t] =
                           [r.obj EXCEPT !.st = "live", !.kind = "root",
                                         !.born = hist.phase]]
           /\ tracers' = r.cache
           /\ handles' = r.hs
           /\ hist' = [hist EXCEPT
                         !.last = NoCall,
                         !.seen_t = Seen(@, DefaultName, r.called, r.tracer)]
    /\ mtx' = [mtx EXCEPT !.tracer = 0]
    /\ pc' = [pc EXCEPT ![t] = "q_body"]
    /\ UNCHANGED <<lifecycleVars, host, frame, fuel>>

\* LLAMA_OTEL_ADD_ATTRIBUTE, push_back, the end of the block: the span is
\* destroyed and q.mutex released
T_AddTaskReturn(t) ==
    /\ pc[t] = "q_body"
    /\ LET e == AddAttribute(scoped[t], "task.id", to_string(t))
       IN  scoped' = [scoped EXCEPT ![t] =
                        [Destructor(e) EXCEPT !.st = "dead", !.exit = "normal",
                                              !.adds = Append(@, <<"task.id",
                                                                   to_string(t)>>)]]
    /\ mtx' = [mtx EXCEPT !.queue = 0]
    /\ pc' = [pc EXCEPT ![t] = "idle"]
    /\ UNCHANGED <<lifecycleVars, tracers, handles, host, frame, hist, fuel>>

\* SpecLocks: worker threads of an initialized process, each making up to
\* MaxCalls calls of GetTracer, GetMeter, SetActiveRequests, Initialize,
\* Shutdown or server_queue_add_task
ThreadCalls(t) ==
    \/ T_GetTracer(t, DefaultName)
    \/ T_GetMeter(t, "aux")
    \/ T_SetActiveRequests(t, 3)
    \/ T_Initialize(t)
    \/ T_AddTask(t)

ThreadSteps(t) ==
    \/ T_GetTracerLock(t) \/ T_GetTracerFind(t)
    \/ T_GetTracerMiss(t) \/ T_GetTracerReturn(t)
    \/ T_GetMeterLock(t) \/ T_GetMeterFind(t)
    \/ T_GetMeterMiss(t) \/ T_GetMeterReturn(t)
    \/ T_SetActiveLock(t) \/ T_SetActiveCheck(t) \/ T_SetActiveAdd(t)
    \/ T_SetActiveAddFault(t) \/ T_SetActiveStore(t) \/ T_SetActiveUnlock(t)
    \/ T_InitializeThrows(t, StepOf("metric_exporter"))
    \/ T_InitializeLock(t) \/ T_InitializeReturn(t)
    \/ T_QueueLock(t) \/ T_SpanLock(t) \/ T_SpanStart(t) \/ T_AddTaskReturn(t)

NextLocks ==
    \/ Shutdown
    \/ \E t \in Threads : ThreadCalls(t)
    \/ \E t \in Threads : ThreadSteps(t)

\* a thread inside a call that can take its next step takes it
SpecLocks ==
    /\ InitThreads
    /\ [][NextLocks]_vars
    /\ \A t \in Threads : WF_vars(ThreadSteps(t))

\* C32: no thread ever holds two of the layer's locks at once, and every
\* call a thread has entered eventually returns, whatever mix of GetTracer,
\* GetMeter, SetActiveRequests, Initialize, Shutdown and span construction
\* under the host's queue lock the threads make.
C32_EveryCallReturns ==
    /\ [](\A t \in Threads : Cardinality(HeldBy(t)) <= 1)
    /\ \A t \in Threads : (pc[t] # "idle") ~> (pc[t] = "idle")

====
